---- MODULE Spec2Model ----
(***************************************************************************)
(* Model of MappedinBlenderImporter.py: importJson and the helpers it      *)
(* calls (createShapeObj, subtractObj, applyColorAttrib, getShapeOrigin,   *)
(* createLabel), run over a JSON file of shape records.                    *)
(*                                                                         *)
(* Python's float arithmetic is modelled by exact extended rationals       *)
(* [k, n, d]: k = "fin" is the rational n/d in lowest terms with d > 0,    *)
(* k = "inf" / "-inf" / "nan" are the IEEE specials that math.inf yields.  *)
(* A JSON object is a function whose DOMAIN is the set of keys present.    *)
(* A string that the code slices is a sequence of one-character strings.   *)
(* An uncaught Python exception ends importJson: pc = "aborted".           *)
(* The host operators (modifier_apply, delete, link) are taken to do what  *)
(* they document and not to raise; the exceptions modelled are the ones    *)
(* the Python code itself raises (open, json.load, subscripts, int).       *)
(***************************************************************************)
EXTENDS Integers, Sequences, FiniteSets, TLC

VARIABLES
    file,    \* what open(path) finds (importJson, line 168)
    data,    \* the array json.load returned (line 169)
    pc,      \* where importJson is: "load", "shape" (line 174), "hole" (179),
             \* "subtract" (180), "color" (182), "label" (184), "done", "aborted"
    idx,     \* 1-based position of `for shape in data` (line 172)
    hidx,    \* holes of the current shape already subtracted (line 178)
    meshes,  \* mesh objects linked in bpy.data.collections['Collection'] (line 70)
    labels,  \* text objects linked in the collection (line 161)
    err,     \* the exception that ended importJson, or "none"
    log      \* the helper calls that returned, in call order

vars == <<file, data, pc, idx, hidx, meshes, labels, err, log>>

(* ---------------------------------------------------------------------- *)
(* Bounds                                                                  *)
(* ---------------------------------------------------------------------- *)
MaxShapes == 2

(* ---------------------------------------------------------------------- *)
(* Float arithmetic (exact)                                                *)
(* ---------------------------------------------------------------------- *)
Abs(i) == IF i < 0 THEN -i ELSE i

RECURSIVE GCD(_, _)
GCD(a, b) == IF b = 0 THEN a ELSE GCD(b, a % b)

Fin(n, d) ==
    LET s == IF d < 0 THEN -1 ELSE 1
        g == GCD(Abs(n), Abs(d))
    IN  [k |-> "fin", n |-> (s * n) \div g, d |-> (s * d) \div g]

Num(i) == Fin(i, 1)

PosInf == [k |-> "inf", n |-> 0, d |-> 1]
NegInf == [k |-> "-inf", n |-> 0, d |-> 1]
NaN    == [k |-> "nan", n |-> 0, d |-> 1]

\* a < b on floats; any comparison with nan is False
FLt(a, b) ==
    CASE a.k = "nan" \/ b.k = "nan" -> FALSE
      [] a.k = "inf"               -> FALSE
      [] b.k = "-inf"              -> FALSE
      [] a.k = "-inf"              -> TRUE
      [] b.k = "inf"               -> TRUE
      [] OTHER                     -> a.n * b.d < b.n * a.d

FNeg(a) ==
    CASE a.k = "fin"  -> Fin(-a.n, a.d)
      [] a.k = "inf"  -> NegInf
      [] a.k = "-inf" -> PosInf
      [] OTHER        -> NaN

FAdd(a, b) ==
    CASE a.k = "nan" \/ b.k = "nan" -> NaN
      [] a.k = "fin" /\ b.k = "fin" -> Fin(a.n * b.d + b.n * a.d, a.d * b.d)
      [] a.k = "fin"                -> b
      [] b.k = "fin"                -> a
      [] a.k = b.k                  -> a
      [] OTHER                      -> NaN

\* a / c for a positive integer literal c (the code divides by 10, 2, 255)
FDiv(a, c) == IF a.k = "fin" THEN Fin(a.n, a.d * c) ELSE a

\* a / 1.5
FDiv15(a) == IF a.k = "fin" THEN Fin(a.n * 2, a.d * 3) ELSE a

(* ---------------------------------------------------------------------- *)
(* dict access                                                             *)
(* ---------------------------------------------------------------------- *)
Has(d, key) == key \in DOMAIN d


\* the object registered under key id in a collection (a function id -> object)
link(scene, id, obj) == [i \in DOMAIN scene \cup {id} |-> IF i = id THEN obj ELSE scene[i]]

\* bpy.ops.object.delete() on one selected object
delete(scene, id) == [i \in DOMAIN scene \ {id} |-> scene[i]]

(* ---------------------------------------------------------------------- *)
(* createShapeObj                                                          *)
(* ---------------------------------------------------------------------- *)
HoleThickness == 999

\* True when a subscript in createShapeObj raises KeyError
createShapeObjRaises(vertices, geometry) ==
    IF \E i \in 1..Len(vertices) : ~Has(vertices[i], "x") \/ ~Has(vertices[i], "y")
    THEN TRUE
    ELSE IF Len(vertices) > 0 /\ ~Has(geometry, "position") THEN TRUE
    ELSE IF Len(vertices) > 0 /\ ~Has(geometry.position, "z") THEN TRUE
    ELSE IF ~Has(geometry, "scale") THEN TRUE
    ELSE ~Has(geometry.scale, "z")

\* mesh_vtx: one 3D vertex per input point, in input order
meshVtx(vertices, geometry) ==
    [i \in 1..Len(vertices) |->
        <<FDiv(FNeg(Num(vertices[i].x)), 10),
          FDiv(Num(vertices[i].y), 10),
          Num(geometry.position.z)>>]

\* solidify.thickness
solidifyThickness(geometry, isHole) ==
    IF ~isHole THEN Num(geometry.scale.z) ELSE Num(HoleThickness)

\* obj.location z: "make the object sit atop the xy plane"
locZMutFull(geometry) == Num(geometry.scale.z)

locZ(geometry) == FDiv(Num(geometry.scale.z), 2)

\* The Solidify modifier with offset 0 and thickness t, applied to a flat face
\* at height z: the shell is centred on the face, z - |t|/2 .. z + |t|/2.
solidifyLo(z, t) == FAdd(z, FNeg(FDiv(Num(Abs(t.n)), 2 * t.d)))

solidifyHi(z, t) == FAdd(z, FDiv(Num(Abs(t.n)), 2 * t.d))

\* The object createShapeObj returns (and links), when nothing raises
createShapeObj(vertices, geometry, isHole) ==
    LET t == solidifyThickness(geometry, isHole)
        z == IF Len(vertices) > 0 THEN Num(geometry.position.z) ELSE NaN
    IN  [ isHole   |-> isHole,
          verts    |-> meshVtx(vertices, geometry),
          zlo      |-> solidifyLo(z, t),
          zhi      |-> solidifyHi(z, t),
          location |-> <<Num(0), Num(0), locZ(geometry)>>,
          cuts     |-> <<>>,
          gen      |-> 0,
          colattr  |-> <<>> ]

(* ---------------------------------------------------------------------- *)
(* applyColorAttrib                                                        *)
(* ---------------------------------------------------------------------- *)
HexChars == <<"0", "1", "2", "3", "4", "5", "6", "7", "8", "9",
              "a", "b", "c", "d", "e", "f">>

HexUpper == <<"0", "1", "2", "3", "4", "5", "6", "7", "8", "9",
              "A", "B", "C", "D", "E", "F">>

IsHex(c) == \E i \in 1..16 : HexChars[i] = c \/ HexUpper[i] = c

HexVal(c) == (CHOOSE i \in 1..16 : HexChars[i] = c \/ HexUpper[i] = c) - 1

RECURSIVE HexNum(_)
HexNum(s) == IF s = <<>> THEN 0 ELSE 16 * HexNum(SubSeq(s, 1, Len(s) - 1)) + HexVal(s[Len(s)])

\* s[a:b] of a Python string (0-based, end-exclusive, clipped to the length)
PySlice(s, a, b) ==
    LET e == IF b < Len(s) THEN b ELSE Len(s)
    IN  IF a + 1 > e THEN <<>> ELSE SubSeq(s, a + 1, e)

RECURSIVE Strip(_)
Strip(s) ==
    IF s = <<>> THEN s
    ELSE IF s[1] = " " THEN Strip(Tail(s))
    ELSE IF s[Len(s)] = " " THEN Strip(SubSeq(s, 1, Len(s) - 1))
    ELSE s

\* int(s, 16) over the alphabet of hex digits, sign and space:
\* ok = FALSE stands for ValueError
ParseInt16(s) ==
    LET t      == Strip(s)
        signed == t # <<>> /\ t[1] \in {"+", "-"}
        body   == IF signed THEN Tail(t) ELSE t
        ok     == body # <<>> /\ \A i \in 1..Len(body) : IsHex(body[i])
        v      == IF ok THEN HexNum(body) ELSE 0
    IN  [ok |-> ok, v |-> IF signed /\ t[1] = "-" THEN -v ELSE v]

\* the exception applyColorAttrib raises on this material, or "none"
applyColorAttribRaises(material) ==
    IF ~Has(material, "color") THEN "KeyError"
    ELSE IF \E a \in {1, 3, 5} : ~ParseInt16(PySlice(material.color, a, a + 2)).ok
         THEN "ValueError"
    ELSE IF ~Has(material, "opacity") THEN "KeyError"
    ELSE "none"

\* mesh_col
meshCol(material) ==
    << FDiv(Num(ParseInt16(PySlice(material.color, 1, 3)).v), 255),
       FDiv(Num(ParseInt16(PySlice(material.color, 3, 5)).v), 255),
       FDiv(Num(ParseInt16(PySlice(material.color, 5, 7)).v), 255),
       material.opacity >>

\* a new POINT-domain colour attribute holding mesh_col on every vertex of the
\* mesh as it is now (topology generation obj.gen)
applyColorAttrib(obj, material) ==
    [obj EXCEPT !.colattr = Append(@, [gen |-> obj.gen, color |-> meshCol(material)])]

(* ---------------------------------------------------------------------- *)
(* subtractObj                                                             *)
(* ---------------------------------------------------------------------- *)
\* Applying the Boolean DIFFERENCE modifier replaces obj1's mesh by
\* obj1 minus obj2: a new vertex set (gen + 1) with obj2's outline cut out.
applyBoolean(obj1, obj2) ==
    [obj1 EXCEPT !.cuts = Append(@, obj2.verts), !.gen = @ + 1]

subtractObjMutKeep(scene, id1, id2) ==
    link(scene, id1, applyBoolean(scene[id1], scene[id2]))

subtractObj(scene, id1, id2) ==
    delete(link(scene, id1, applyBoolean(scene[id1], scene[id2])), id2)

(* ---------------------------------------------------------------------- *)
(* getShapeOrigin                                                          *)
(* ---------------------------------------------------------------------- *)
originStart == [min_x |-> PosInf, max_x |-> NegInf, min_y |-> PosInf, max_y |-> NegInf]

\* the loop body with the second test of each pair turned into an elif
originStepMutElif(acc, vtx) ==
    LET x == Num(vtx.x)
        y == Num(vtx.y)
    IN  [ min_x |-> IF FLt(x, acc.min_x) THEN x ELSE acc.min_x,
          max_x |-> IF ~FLt(x, acc.min_x) /\ FLt(acc.max_x, x) THEN x ELSE acc.max_x,
          min_y |-> IF FLt(y, acc.min_y) THEN y ELSE acc.min_y,
          max_y |-> IF ~FLt(y, acc.min_y) /\ FLt(acc.max_y, y) THEN y ELSE acc.max_y ]

\* one iteration of the loop body
originStep(acc, vtx) ==
    LET x == Num(vtx.x)
        y == Num(vtx.y)
    IN  [ min_x |-> IF FLt(x, acc.min_x) THEN x ELSE acc.min_x,
          max_x |-> IF FLt(acc.max_x, x) THEN x ELSE acc.max_x,
          min_y |-> IF FLt(y, acc.min_y) THEN y ELSE acc.min_y,
          max_y |-> IF FLt(acc.max_y, y) THEN y ELSE acc.max_y ]

RECURSIVE originLoop(_, _)
originLoop(acc, vertices) ==
    IF vertices = <<>> THEN acc
    ELSE originLoop(originStep(acc, Head(vertices)), Tail(vertices))

getShapeOrigin(vertices) ==
    LET b == originLoop(originStart, vertices)
    IN  <<FDiv(FAdd(b.min_x, b.max_x), 2), FDiv(FAdd(b.min_y, b.max_y), 2)>>

(* ---------------------------------------------------------------------- *)
(* createLabel                                                             *)
(* ---------------------------------------------------------------------- *)
\* True when a subscript in createLabel (or in getShapeOrigin) raises KeyError
createLabelRaises(lb, vtx) ==
    IF \E key \in {"text", "fontSize", "align", "position", "rotation"} : ~Has(lb, key)
    THEN TRUE
    ELSE \E i \in 1..Len(vtx) : ~Has(vtx[i], "x") \/ ~Has(vtx[i], "y")

alignX(lb) ==
    IF lb.align = "left" THEN "LEFT" ELSE IF lb.align = "right" THEN "RIGHT" ELSE "CENTER"

\* obj.location with the label's own x/y offsets subtracted
labelLocationMutOffset(lb, vtx) ==
    LET origin == getShapeOrigin(vtx)
        loc    == lb.position
    IN  << FAdd(FDiv(FNeg(origin[1]), 10),
                FNeg(IF Has(loc, "x") THEN FDiv(Num(loc.x), 10) ELSE Num(0))),
           FAdd(FDiv(origin[2], 10),
                FNeg(IF Has(loc, "y") THEN FDiv(Num(loc.y), 10) ELSE Num(0))),
           IF Has(loc, "z") THEN FDiv(Num(loc.z), 10) ELSE Num(0) >>

\* obj.location
labelLocation(lb, vtx) ==
    LET origin == getShapeOrigin(vtx)
        loc    == lb.position
    IN  << FDiv(FNeg(origin[1]), 10),
           FDiv(origin[2], 10),
           IF Has(loc, "z") THEN FDiv(Num(loc.z), 10) ELSE Num(0) >>

\* obj.rotation_euler, in degrees (radians(d) is d * pi / 180)
labelRotation(lb) ==
    LET rot == lb.rotation
    IN  << IF Has(rot, "x") THEN Num(rot.x) ELSE Num(0),
           IF Has(rot, "y") THEN Num(rot.y) ELSE Num(0),
           IF Has(rot, "z") THEN Num(rot.z + 180) ELSE Num(0) >>

\* The text object createLabel links, when nothing raises
createLabel(lb, vtx) ==
    [ body           |-> lb.text,
      size           |-> FDiv15(Num(lb.fontSize)),
      align_x        |-> alignX(lb),
      location       |-> labelLocation(lb, vtx),
      rotation_euler |-> labelRotation(lb) ]


(* ---------------------------------------------------------------------- *)
(* Input files                                                             *)
(* ---------------------------------------------------------------------- *)
Pt(x, y) == [x |-> x, y |-> y]

Square == <<Pt(0, 0), Pt(10, 0), Pt(10, 10), Pt(0, 10)>>

Triangle == <<Pt(5, 7), Pt(-3, 1), Pt(2, 9)>>

Segment == <<Pt(0, 0), Pt(10, 0)>>

HoleA == <<Pt(2, 2), Pt(8, 2), Pt(8, 8), Pt(2, 8)>>

HoleB == <<Pt(3, 3), Pt(4, 3), Pt(4, 4)>>

HoleSegment == <<Pt(2, 2), Pt(8, 8)>>

\* a hole outline whose second point has no 'y'
HoleNoY == <<Pt(1, 1), [x |-> 2]>>

Geometry(visible, z, thickness) ==
    [ visible  |-> visible,
      position |-> [x |-> 0, y |-> 0, z |-> z],
      scale    |-> [x |-> 1, y |-> 1, z |-> thickness] ]

Green == [color |-> <<"#", "0", "0", "F", "F", "0", "0">>, opacity |-> Num(1)]

Red == [color |-> <<"#", "f", "f", "0", "0", "0", "0">>, opacity |-> Fin(1, 2)]

BadColor == [color |-> <<"#", "G", "G", "0", "0", "0", "0">>, opacity |-> Num(1)]

ShortColor == [color |-> <<"#", "F", "F", "F">>, opacity |-> Num(1)]

LabelBody(position) ==
    [ text     |-> "Shop",
      fontSize |-> 12,
      align    |-> "center",
      position |-> position,
      rotation |-> [z |-> 90] ]

Visible(b) == [visible |-> b]

Solid(vertexes, z, thickness) ==
    [vertexes |-> vertexes, geometry |-> Geometry(TRUE, z, thickness), material |-> Green]

\* The shape records the input arrays are built from
Shapes ==
    { Solid(Square, 0, 5),
      Solid(Square, 0, 5) @@ [holes |-> <<HoleA>>],
      Solid(Square, 3, 5) @@ [holes |-> <<>>],
      Solid(Triangle, 3, 5) @@ [holes |-> <<HoleA, HoleB>>]
          @@ [label |-> LabelBody([x |-> 1, y |-> 2, z |-> 30]) @@ Visible(TRUE)],
      Solid(Triangle, 3, 5) @@ [holes |-> <<HoleA, HoleB>>]
          @@ [label |-> LabelBody([x |-> 7, y |-> -4, z |-> 30]) @@ Visible(TRUE)],
      Solid(Triangle, 0, 1) @@ [label |-> LabelBody([x |-> 7, y |-> 2]) @@ Visible(TRUE)],
      Solid(Square, 0, 5) @@ [label |-> LabelBody([z |-> 5]) @@ Visible(FALSE)],
      [ vertexes |-> Square, geometry |-> Geometry(FALSE, 0, 5), material |-> Green,
        label |-> LabelBody([z |-> 5]) ],
      [ vertexes |-> Square, geometry |-> Geometry(FALSE, 0, 5),
        label |-> LabelBody([z |-> 5]) @@ Visible(TRUE) ],
      [ geometry |-> Geometry(TRUE, 0, 5) ],
      [ label |-> LabelBody([z |-> 5]) @@ Visible(TRUE) ],
      [ vertexes |-> Square, material |-> Green ],
      [ vertexes |-> Square, geometry |-> Geometry(TRUE, 0, 5) ],
      [ vertexes |-> Square, geometry |-> Geometry(TRUE, 0, 5), material |-> BadColor ],
      [ vertexes |-> Square, geometry |-> Geometry(TRUE, 0, 5), material |-> ShortColor,
        holes |-> <<HoleA>> ],
      [ vertexes |-> Square, geometry |-> Geometry(FALSE, 0, 5), material |-> Green,
        holes |-> <<HoleA>> ],
      Solid(Segment, 0, 5),
      Solid(Square, 0, 5) @@ [holes |-> <<HoleSegment>>],
      Solid(Square, 0, 5) @@ [holes |-> <<HoleA, HoleNoY>>] }

RECURSIVE Arrays(_)
Arrays(n) ==
    IF n = 0 THEN {<<>>}
    ELSE Arrays(n - 1) \cup {Append(a, s) : a \in {b \in Arrays(n - 1) : Len(b) = n - 1}, s \in Shapes}

\* What open(path) finds: no file, a file that is not JSON, or a JSON array
Files ==
    { [status |-> "missing", content |-> <<>>], [status |-> "invalid", content |-> <<>>] }
    \cup { [status |-> "ok", content |-> a] : a \in Arrays(MaxShapes) }

(* ---------------------------------------------------------------------- *)
(* importJson                                                              *)
(* ---------------------------------------------------------------------- *)
shapeId(i) == <<i, 0>>

holeId(i, k) == <<i, k>>

\* the guard of line 174 (evaluated left to right, short-circuit)
meshWanted(shape) == Has(shape, "vertexes") /\ shape.geometry.visible

meshGuardRaises(shape) ==
    IF ~Has(shape, "vertexes") THEN FALSE
    ELSE IF ~Has(shape, "geometry") THEN TRUE
    ELSE ~Has(shape.geometry, "visible")

\* the guard of line 184 without the test for the 'visible' key (absent reads as shown)
labelWantedMutDefault(shape) ==
    Has(shape, "label") /\ (Has(shape.label, "visible") => shape.label.visible)

\* the guard of line 184
labelWanted(shape) ==
    Has(shape, "label") /\ Has(shape.label, "visible") /\ shape.label.visible

\* the holes list the loop of line 178 runs over (none without a 'holes' key)
holesOf(shape) == IF Has(shape, "holes") THEN shape.holes ELSE <<>>

\* the k-th hole taken from the end of the list
holeAtMutReversed(shape, k) == holesOf(shape)[Len(holesOf(shape)) + 1 - k]

\* the hole of the k-th iteration of the loop of line 178
holeAt(shape, k) == holesOf(shape)[k]

\* the loop body with the colour applied right after the shape is built
nextPhaseMutColorFirst(phase, shape, k) ==
    CASE phase = "create"   -> "color"
      [] phase = "color"    -> IF k < Len(holesOf(shape)) THEN "hole" ELSE "label"
      [] phase = "subtract" -> IF k < Len(holesOf(shape)) THEN "hole" ELSE "label"

\* Where lines 175-182 go after a phase, k holes of the shape being done
nextPhase(phase, shape, k) ==
    CASE phase = "create"   -> IF k < Len(holesOf(shape)) THEN "hole" ELSE "color"
      [] phase = "subtract" -> IF k < Len(holesOf(shape)) THEN "hole" ELSE "color"
      [] phase = "color"    -> "label"

Raise(e) ==
    /\ pc' = "aborted"
    /\ err' = e
    /\ UNCHANGED <<file, data, idx, hidx, meshes, labels, log>>

Call(op, k) == [op |-> op, shape |-> idx, hole |-> k]

Init ==
    /\ file \in Files
    /\ data = <<>>
    /\ pc = "load"
    /\ idx = 0
    /\ hidx = 0
    /\ meshes = <<>>
    /\ labels = <<>>
    /\ err = "none"
    /\ log = <<>>

\* lines 168-170: open, json.load, close
Load ==
    /\ pc = "load"
    /\ file.status = "ok"
    /\ data' = file.content
    /\ idx' = 1
    /\ pc' = "shape"
    /\ UNCHANGED <<file, hidx, meshes, labels, err, log>>

LoadMissing ==
    /\ pc = "load"
    /\ file.status = "missing"
    /\ Raise("FileNotFoundError")

LoadInvalid ==
    /\ pc = "load"
    /\ file.status = "invalid"
    /\ Raise("JSONDecodeError")

\* line 174 false: the shape gets no mesh
GeometrySkip ==
    /\ pc = "shape"
    /\ idx <= Len(data)
    /\ ~meshGuardRaises(data[idx])
    /\ ~meshWanted(data[idx])
    /\ pc' = "label"
    /\ hidx' = 0
    /\ UNCHANGED <<file, data, idx, meshes, labels, err, log>>

\* lines 174-175 raise KeyError
GeometryRaise ==
    /\ pc = "shape"
    /\ idx <= Len(data)
    /\ IF meshGuardRaises(data[idx]) THEN TRUE
       ELSE /\ meshWanted(data[idx])
            /\ createShapeObjRaises(data[idx].vertexes, data[idx].geometry)
    /\ Raise("KeyError")

\* lines 174-175: shapeObj = createShapeObj(shape['vertexes'], shape['geometry'])
GeometryCreate ==
    /\ pc = "shape"
    /\ idx <= Len(data)
    /\ ~meshGuardRaises(data[idx])
    /\ meshWanted(data[idx])
    /\ ~createShapeObjRaises(data[idx].vertexes, data[idx].geometry)
    /\ meshes' = link(meshes, shapeId(idx),
                      createShapeObj(data[idx].vertexes, data[idx].geometry, FALSE))
    /\ log' = Append(log, Call("createShapeObj", 0))
    /\ hidx' = 0
    /\ pc' = nextPhase("create", data[idx], 0)
    /\ UNCHANGED <<file, data, idx, labels, err>>

\* line 179 raises KeyError
HoleRaise ==
    /\ pc = "hole"
    /\ createShapeObjRaises(holeAt(data[idx], hidx + 1), data[idx].geometry)
    /\ Raise("KeyError")

\* line 179: holeObj = createShapeObj(hole, shape['geometry'], True)
HoleCreate ==
    /\ pc = "hole"
    /\ ~createShapeObjRaises(holeAt(data[idx], hidx + 1), data[idx].geometry)
    /\ meshes' = link(meshes, holeId(idx, hidx + 1),
                      createShapeObj(holeAt(data[idx], hidx + 1), data[idx].geometry, TRUE))
    /\ log' = Append(log, Call("createShapeObj", hidx + 1))
    /\ pc' = "subtract"
    /\ UNCHANGED <<file, data, idx, hidx, labels, err>>

\* line 180: subtractObj(shapeObj, holeObj)
Subtract ==
    /\ pc = "subtract"
    /\ meshes' = subtractObj(meshes, shapeId(idx), holeId(idx, hidx + 1))
    /\ log' = Append(log, Call("subtractObj", hidx + 1) @@
                          [ obj1    |-> meshes[shapeId(idx)],
                            obj2    |-> meshes[holeId(idx, hidx + 1)],
                            deleted |-> DOMAIN meshes \ DOMAIN meshes' ])
    /\ hidx' = hidx + 1
    /\ pc' = nextPhase("subtract", data[idx], hidx + 1)
    /\ UNCHANGED <<file, data, idx, labels, err>>

\* line 182 raises: no 'material', or applyColorAttrib raises
ColorRaise ==
    /\ pc = "color"
    /\ IF ~Has(data[idx], "material") THEN Raise("KeyError")
       ELSE /\ applyColorAttribRaises(data[idx].material) # "none"
            /\ Raise(applyColorAttribRaises(data[idx].material))

\* line 182: applyColorAttrib(shapeObj, shape['material'])
Color ==
    /\ pc = "color"
    /\ Has(data[idx], "material")
    /\ applyColorAttribRaises(data[idx].material) = "none"
    /\ meshes' = link(meshes, shapeId(idx),
                      applyColorAttrib(meshes[shapeId(idx)], data[idx].material))
    /\ log' = Append(log, Call("applyColorAttrib", 0))
    /\ pc' = nextPhase("color", data[idx], hidx)
    /\ UNCHANGED <<file, data, idx, hidx, labels, err>>

\* line 184 false: the shape gets no label; on to the next shape
LabelSkip ==
    /\ pc = "label"
    /\ ~labelWanted(data[idx])
    /\ idx' = idx + 1
    /\ pc' = "shape"
    /\ UNCHANGED <<file, data, hidx, meshes, labels, err, log>>

\* line 185 raises KeyError
LabelRaise ==
    /\ pc = "label"
    /\ labelWanted(data[idx])
    /\ IF ~Has(data[idx], "vertexes") THEN TRUE
       ELSE createLabelRaises(data[idx].label, data[idx].vertexes)
    /\ Raise("KeyError")

\* lines 184-185: createLabel(shape['label'], shape['vertexes'])
LabelCreate ==
    /\ pc = "label"
    /\ labelWanted(data[idx])
    /\ Has(data[idx], "vertexes")
    /\ ~createLabelRaises(data[idx].label, data[idx].vertexes)
    /\ labels' = link(labels, idx, createLabel(data[idx].label, data[idx].vertexes))
    /\ log' = Append(log, Call("createLabel", 0))
    /\ idx' = idx + 1
    /\ pc' = "shape"
    /\ UNCHANGED <<file, data, hidx, meshes, err>>

\* line 187: return {'FINISHED'}
Finish ==
    /\ pc = "shape"
    /\ idx > Len(data)
    /\ pc' = "done"
    /\ UNCHANGED <<file, data, idx, hidx, meshes, labels, err, log>>

Next ==
    \/ Load
    \/ LoadMissing
    \/ LoadInvalid
    \/ GeometrySkip
    \/ GeometryRaise
    \/ GeometryCreate
    \/ HoleRaise
    \/ HoleCreate
    \/ Subtract
    \/ ColorRaise
    \/ Color
    \/ LabelSkip
    \/ LabelRaise
    \/ LabelCreate
    \/ Finish

Spec == Init /\ [][Next]_vars


(* ---------------------------------------------------------------------- *)
(* Properties                                                              *)
(* ---------------------------------------------------------------------- *)
\* the loop iteration of shape i has run to its end
ShapeFinished(i) == pc # "load" /\ idx > i

\* lines 175-182 of shape i have run to their end
MeshFinished(i) == ShapeFinished(i) \/ (idx = i /\ pc = "label")

\* the calls of one kind logged for shape i, in call order
CallsOf(op, i) == SelectSeq(log, LAMBDA e : e.op = op /\ e.shape = i)

\* the hole solids built for shape i
HolesCreated(i) == Len(SelectSeq(log, LAMBDA e : e.op = "createShapeObj" /\ e.shape = i /\ e.hole > 0))

RECURSIVE SumDeleted(_)
SumDeleted(calls) ==
    IF calls = <<>> THEN 0
    ELSE Cardinality({id \in Head(calls).deleted : id[2] > 0}) + SumDeleted(Tail(calls))

\* the hole solids of shape i removed from the scene
HolesDestroyed(i) == SumDeleted(CallsOf("subtractObj", i))

\* the hole solids of shape i linked in the scene
HolesLinked(i) == {id \in DOMAIN meshes : id[1] = i /\ meshes[id].isHole}

\* C1: a mesh object (shape solid or hole tool) exists or was ever built for a
\* record only if the record has 'vertexes' and geometry.visible is true; a
\* label object exists for a record only if the record has 'label', the label
\* has 'visible' and it is true.  So a finished record whose label has no
\* 'visible' key has no label object, and one with geometry.visible = false
\* has no mesh object.
C1_VisibilityGates ==
    /\ \A id \in DOMAIN meshes :
          /\ Has(data[id[1]], "vertexes")
          /\ Has(data[id[1]], "geometry")
          /\ data[id[1]].geometry.visible = TRUE
    /\ \A n \in 1..Len(log) :
          log[n].op \in {"createShapeObj", "subtractObj", "applyColorAttrib"} =>
              /\ Has(data[log[n].shape], "vertexes")
              /\ data[log[n].shape].geometry.visible = TRUE
    /\ \A i \in DOMAIN labels :
          /\ Has(data[i], "label")
          /\ Has(data[i].label, "visible")
          /\ data[i].label.visible = TRUE
    /\ \A n \in 1..Len(log) :
          log[n].op = "createLabel" =>
              /\ Has(data[log[n].shape], "label")
              /\ Has(data[log[n].shape].label, "visible")
              /\ data[log[n].shape].label.visible = TRUE

\* a finished run with a record whose label lacks 'visible' and whose geometry
\* is invisible (it got neither object), and another record that got a label
C1_Witness ==
    /\ pc = "done"
    /\ \E i \in 1..Len(data) :
          /\ Has(data[i], "label") /\ ~Has(data[i].label, "visible")
          /\ Has(data[i], "vertexes") /\ ~data[i].geometry.visible
          /\ i \notin DOMAIN labels
          /\ shapeId(i) \notin DOMAIN meshes
    /\ \E j \in DOMAIN labels : shapeId(j) \in DOMAIN meshes

C3_LocalErrorsIsolated ==
    (pc \in {"done", "aborted"} /\ err = "ValueError") =>
        \A j \in 1..Len(data) : j <= idx

\* C4: when importJson aborts on malformed input (no file, not JSON, or a
\* missing key), no object of this run is linked in the scene.
C4_AbortBeforeMutation ==
    (pc = "aborted" /\ err \in {"FileNotFoundError", "JSONDecodeError", "KeyError"}) =>
        (DOMAIN meshes = {} /\ DOMAIN labels = {})

\* C5: no mesh object is built or linked from an outline of fewer than 3
\* points.
C5_DegenerateRejected ==
    /\ \A id \in DOMAIN meshes : Len(meshes[id].verts) >= 3
    /\ \A n \in 1..Len(log) :
          log[n].op = "subtractObj" => Len(log[n].obj2.verts) >= 3

\* the record without the x and y of its label position
WithoutLabelXY(shape) ==
    [shape EXCEPT !.label.position = [key \in DOMAIN @ \ {"x", "y"} |-> @[key]]]

\* C6: a label sits at (-origin.x/10, origin.y/10, position.z/10 or 0), origin
\* being getShapeOrigin of the parent shape's vertexes; two records that differ
\* only in label.position.x / label.position.y get the same label location.
C6_LabelOffsetsIgnored ==
    /\ \A i \in DOMAIN labels :
          LET origin == getShapeOrigin(data[i].vertexes)
              pos    == data[i].label.position
          IN  labels[i].location =
                  << FDiv(FNeg(origin[1]), 10),
                     FDiv(origin[2], 10),
                     IF Has(pos, "z") THEN Fin(pos.z, 10) ELSE Num(0) >>
    /\ \A i, j \in DOMAIN labels :
          WithoutLabelXY(data[i]) = WithoutLabelXY(data[j]) =>
              labels[i].location = labels[j].location

\* two labels in the scene whose records differ only in the label's x and y
C6_Witness ==
    \E i, j \in DOMAIN labels :
        /\ WithoutLabelXY(data[i]) = WithoutLabelXY(data[j])
        /\ Has(data[i].label.position, "x")
        /\ Has(data[j].label.position, "x")
        /\ data[i].label.position.x # data[j].label.position.x
        /\ data[i].label.position.y # data[j].label.position.y

\* the z extent of an object in scene coordinates
WorldLo(obj) == FAdd(obj.zlo, obj.location[3])

WorldHi(obj) == FAdd(obj.zhi, obj.location[3])

\* C7: the solid of a shape outline of at least 3 points spans exactly
\* [geometry.position.z, geometry.position.z + geometry.scale.z] along z in
\* scene coordinates (scale.z > 0), so its height is geometry.scale.z.
C7_SolidSpan ==
    \A i \in 1..Len(data) :
        (shapeId(i) \in DOMAIN meshes /\ Len(data[i].vertexes) >= 3
            /\ data[i].geometry.scale.z > 0) =>
            LET obj == meshes[shapeId(i)]
                g   == data[i].geometry
            IN  /\ WorldLo(obj) = Num(g.position.z)
                /\ WorldHi(obj) = Num(g.position.z + g.scale.z)
                /\ FAdd(WorldHi(obj), FNeg(WorldLo(obj))) = Num(g.scale.z)

\* a solid built at a non-zero height with an odd thickness
C7_Witness ==
    \E i \in 1..Len(data) :
        /\ shapeId(i) \in DOMAIN meshes
        /\ Len(data[i].vertexes) >= 3
        /\ data[i].geometry.position.z > 0
        /\ data[i].geometry.scale.z % 2 = 1

\* C8: on every shape object, applyColorAttrib comes after every subtractObj
\* (no subtractObj follows it in the call log), and once lines 175-182 are
\* done for the shape its colour attribute covers the vertex set of its final
\* mesh with the material's RGBA (channels / 255, alpha = opacity).
C8_ColorAfterHoles ==
    /\ \A m, n \in 1..Len(log) :
          (m < n /\ log[m].op = "applyColorAttrib" /\ log[m].shape = log[n].shape)
              => log[n].op # "subtractObj"
    /\ \A i \in 1..Len(data) :
          (MeshFinished(i) /\ shapeId(i) \in DOMAIN meshes) =>
              LET obj == meshes[shapeId(i)]
                  mat == data[i].material
              IN  /\ Len(CallsOf("applyColorAttrib", i)) = 1
                  /\ Len(obj.colattr) = 1
                  /\ obj.colattr[1].gen = obj.gen
                  /\ obj.colattr[1].color =
                        << Fin(ParseInt16(PySlice(mat.color, 1, 3)).v, 255),
                           Fin(ParseInt16(PySlice(mat.color, 3, 5)).v, 255),
                           Fin(ParseInt16(PySlice(mat.color, 5, 7)).v, 255),
                           mat.opacity >>
                  /\ mat = Green =>
                        obj.colattr[1].color = <<Num(0), Num(1), Num(0), Num(1)>>
                  /\ mat = Red =>
                        obj.colattr[1].color = <<Num(1), Num(0), Num(0), Fin(1, 2)>>

\* a finished shape that had two holes subtracted and was then coloured
C8_Witness ==
    \E i \in 1..Len(data) :
        /\ ShapeFinished(i)
        /\ shapeId(i) \in DOMAIN meshes
        /\ Len(CallsOf("subtractObj", i)) = 2
        /\ Len(meshes[shapeId(i)].colattr) = 1

Outlines ==
    { o \in UNION { {IF Has(data[i], "vertexes") THEN data[i].vertexes ELSE <<>>}
                      \cup {holesOf(data[i])[k] : k \in 1..Len(holesOf(data[i]))}
                    : i \in 1..Len(data) } :
        o # <<>> /\ \A n \in 1..Len(o) : Has(o[n], "x") /\ Has(o[n], "y") }

\* the orderings of a point sequence
Reorderings(o) ==
    { [n \in 1..Len(o) |-> o[f[n]]] : f \in Permutations(1..Len(o)) }

SetMin(S) == CHOOSE m \in S : \A o \in S : m <= o

SetMax(S) == CHOOSE m \in S : \A o \in S : m >= o

\* the midpoint of the axis-aligned bounding box of a set of points
BoxMidpoint(o) ==
    LET xs == {o[n].x : n \in 1..Len(o)}
        ys == {o[n].y : n \in 1..Len(o)}
    IN  <<Fin(SetMin(xs) + SetMax(xs), 2), Fin(SetMin(ys) + SetMax(ys), 2)>>

\* C10: for every non-empty point sequence of the input and every
\* reordering of it, getShapeOrigin returns the midpoint of the axis-aligned
\* bounding box, ((min_x + max_x) / 2, (min_y + max_y) / 2); a label's x and y
\* are that midpoint of its shape, mapped to scene units.
C10_OriginOrderIndependent ==
    /\ \A o \in Outlines :
          \A p \in Reorderings(o) : getShapeOrigin(p) = BoxMidpoint(o)
    /\ \A i \in DOMAIN labels :
          data[i].vertexes \in Outlines =>
              /\ labels[i].location[1] = FDiv(FNeg(BoxMidpoint(data[i].vertexes)[1]), 10)
              /\ labels[i].location[2] = FDiv(BoxMidpoint(data[i].vertexes)[2], 10)

\* a label placed on a shape whose outline is not sorted in x
C10_Witness ==
    \E i \in DOMAIN labels :
        /\ Len(data[i].vertexes) >= 3
        /\ data[i].vertexes[1].x > data[i].vertexes[2].x
        /\ data[i].vertexes[2].x < data[i].vertexes[3].x

====
